---- MODULE Spec2Model ----
(***************************************************************************)
(* A state-machine model of the OpenPGP card driver of OpenSC             *)
(* (src/libopensc/card-openpgp.c): the fake file system built from the    *)
(* card's data objects (the blob tree, lazily loaded and TLV-expanded),   *)
(* the path resolver, the binary reader and the security-environment      *)
(* gate in front of the signature / decipher commands.                    *)
(*                                                                         *)
(* Every C function is an operator with the C function's name.  An        *)
(* operator takes the "machine" m it works on, a record                   *)
(*     blobs  the heap of struct blob, a sequence indexed by address      *)
(*     tape   what the card will answer to the next commands              *)
(*     apdus  the commands transmitted so far by the running handler      *)
(*     short  whether the tape ran out                                     *)
(*     trace  the steps of the path walk taken by the running handler     *)
(* and returns a record with the machine after the call (m), the C return *)
(* value (r) and the out-parameters.  A handler of the driver is one      *)
(* action; it draws its arguments and the card's answers from small sets. *)
(***************************************************************************)
EXTENDS Integers, Sequences, FiniteSets, TLC

VARIABLES
    drv_data,   \* card->drv_data: NULL, or Ptr("priv") between init and finish
    blobs,      \* the struct blob objects allocated by the session
    current,    \* priv->current: a blob address, or 0 for the C NULL
    sec_env,    \* priv->sec_env
    call,       \* the driver operation called last, with its arguments
    ret,        \* its return value
    out,        \* what it wrote for its caller (buffer bytes, file view)
    apdus,      \* the command APDUs it transmitted
    trace,      \* the steps its path walk took
    fault,      \* "none", or the undefined behaviour it ran into
    good_env,   \* the argument of the last set_security_env that succeeded
    heap,       \* the objects allocated and not freed
    freed       \* the objects it freed, in the order of the free calls

vars == <<drv_data, blobs, current, sec_env, call, ret, out, apdus, trace,
          fault, good_env, heap, freed>>

(***************************************************************************)
(* Bounds of the model.                                                    *)
(***************************************************************************)
\* the card's answers drawn per handler call (no handler of the model
\* transmits more commands than that)
MaxCmds == 2
\* read_binary offsets and counts are drawn from 0 .. MaxCount
MaxCount == 3
\* the allocation made to fail in a handler call is one of its first
\* MaxFault + 1 (pgp_init: any of its allocations)
MaxFault == 2
\* allocations are made to fail while fewer file views than that are lost
MaxOrphans == 1

(***************************************************************************)
(* Values of the host framework's headers (errors.h, opensc.h, types.h).   *)
(***************************************************************************)
SC_SUCCESS == 0
SC_ERROR_TRANSMIT_FAILED == -1107
SC_ERROR_CARD_CMD_FAILED == -1200
SC_ERROR_FILE_NOT_FOUND == -1201
SC_ERROR_INCORRECT_PARAMETERS == -1205
SC_ERROR_INVALID_ARGUMENTS == -1300
SC_ERROR_OUT_OF_MEMORY == -1404
SC_ERROR_OBJECT_NOT_VALID == -1406
SC_ERROR_NOT_SUPPORTED == -1408

SC_SEC_OPERATION_DECIPHER == 1
SC_SEC_OPERATION_SIGN == 2
SC_SEC_OPERATION_AUTHENTICATE == 3

SC_ALGORITHM_RSA == 0
SC_ALGORITHM_DSA == 1

SC_APDU_CASE_2 == 2
SC_APDU_CASE_4 == 4

SC_FILE_TYPE_DF == "DF"
SC_FILE_TYPE_WORKING_EF == "WORKING_EF"

SC_PATH_TYPE_FILE_ID == "FILE_ID"
SC_PATH_TYPE_DF_NAME == "DF_NAME"
SC_PATH_TYPE_PATH == "PATH"

\* a C pointer to an owned object: NULL, or Ptr(x) pointing at the value x
NULL == <<>>
Ptr(x) == <<x>>
Deref(p) == p[1]

Min(a, b) == IF a < b THEN a ELSE b

(***************************************************************************)
(* The DO registry.                                                        *)
(***************************************************************************)
DoInfo(id, constructed, get_fn, put_fn) ==
    [id |-> id, constructed |-> constructed, get_fn |-> get_fn, put_fn |-> put_fn]

pgp_objects == <<
    DoInfo(\H004f, 0, "sc_get_data", "sc_put_data"),
    DoInfo(\H005e, 0, "sc_get_data", "sc_put_data"),
    DoInfo(\H0065, 1, "sc_get_data", "sc_put_data"),
    DoInfo(\H006e, 1, "sc_get_data", "sc_put_data"),
    DoInfo(\H007a, 1, "sc_get_data", "sc_put_data"),
    DoInfo(\H00c4, 0, "sc_get_data", "sc_put_data"),
    DoInfo(\H0101, 0, "sc_get_data", "sc_put_data"),
    DoInfo(\H0102, 0, "sc_get_data", "sc_put_data"),
    DoInfo(\H5f50, 0, "sc_get_data", "sc_put_data"),
    DoInfo(\H5f52, 0, "sc_get_data", "sc_put_data"),
    DoInfo(\H7f21, 1, "sc_get_data", "sc_put_data"),
    DoInfo(\Hb600, 1, "pgp_get_pubkey", "NULL"),
    DoInfo(\Hb800, 1, "pgp_get_pubkey", "NULL"),
    DoInfo(\Ha400, 1, "pgp_get_pubkey", "NULL"),
    DoInfo(\Hb601, 0, "pgp_get_pubkey_pem", "NULL"),
    DoInfo(\Hb801, 0, "pgp_get_pubkey_pem", "NULL"),
    DoInfo(\Ha401, 0, "pgp_get_pubkey_pem", "NULL") >>

(***************************************************************************)
(* The card.  A command is answered by a transmission error (tx < 0), by   *)
(* a status word that sc_check_sw maps to an error (sw < 0), or by bytes.  *)
(***************************************************************************)
Reply(tx, sw, data) == [tx |-> tx, sw |-> sw, data |-> data]

CardData == { <<>>, <<\H5b, 1, \H41>>, <<\H5b, 0, \H5f>>, <<\H5b, 0, \H5b, 0>> }

CardReplies ==
    { Reply(SC_ERROR_TRANSMIT_FAILED, 0, <<>>),
      Reply(0, SC_ERROR_CARD_CMD_FAILED, <<>>) }
    \cup { Reply(0, 0, d) : d \in CardData }

Apdu(cse, ins, p1, p2, data) ==
    [cse |-> cse, ins |-> ins, p1 |-> p1 % 256, p2 |-> p2 % 256, data |-> data]

\* allocs of a run in which no allocation fails
NoFault == -1

\* short: the handler asked the card for more answers than the tape held;
\* allocs: the allocations that succeed before one fails
Machine(b, tape) ==
    [blobs |-> b, tape |-> tape, apdus |-> <<>>, trace |-> <<>>, short |-> FALSE,
     heap |-> heap, allocs |-> NoFault, freed |-> <<>>]

\* the machine in which the allocation after the first n fails
Failing(m, n) == [m EXCEPT !.allocs = n]

\* malloc / calloc of the object x: NULL when its turn to fail has come
malloc(m, x) ==
    [m |-> [m EXCEPT !.allocs = @ - 1,
                     !.heap = IF m.allocs # 0 THEN @ \cup {x} ELSE @],
     ok |-> m.allocs # 0]

\* free(x), sc_file_free(x)
free(m, x) == [m EXCEPT !.heap = @ \ {x}, !.freed = Append(@, x)]

\* sc_file_new(), taken to succeed
sc_file_new(m, x) == [m EXCEPT !.heap = @ \cup {x}]

\* the file view x is allocated still, and no pointer to it is left
Orphans(h) == { o \in h : o[1] = "orphan" }
Orphaned(m, x) ==
    [m EXCEPT !.heap = (@ \ {x}) \cup {<<"orphan", Cardinality(Orphans(@)) + 1>>}]

\* sc_transmit_apdu followed by sc_check_sw: the command goes out and the
\* card's next answer comes back.
sc_transmit_apdu(m, apdu) ==
    LET reply == IF m.tape = <<>>
                 THEN Reply(SC_ERROR_TRANSMIT_FAILED, 0, <<>>)
                 ELSE Head(m.tape)
    IN  [m |-> [m EXCEPT !.tape = IF m.tape = <<>> THEN <<>> ELSE Tail(m.tape),
                         !.short = (m.tape = <<>>),
                         !.apdus = Append(m.apdus, apdu)],
         reply |-> reply]

\* SC_TEST_RET twice: the transmission result, then the status word
ApduResult(reply) ==
    IF reply.tx < 0 THEN reply.tx
    ELSE IF reply.sw < 0 THEN reply.sw
    ELSE Len(reply.data)

(***************************************************************************)
(* struct blob and its file view (sc_file_t).                              *)
(***************************************************************************)
File(path, type, id) == [path |-> path, type |-> type, id |-> id, size |-> 0]

\* calloc'ed struct blob with the fields pgp_new_blob sets; files is the
\* child list (the chain blob->files, ->next, ->next ...) in list order
Blob(parent, id, file, info) ==
    [parent |-> parent, info |-> info, file |-> file, id |-> id, status |-> 0,
     data |-> NULL, len |-> 0, files |-> <<>>]

\* sc_append_file_id: the id's two bytes, high byte first, at the path's end
sc_append_file_id(path, id) == path \o << (id \div 256) % 256, id % 256 >>

\* if (blob->data) free(blob->data); data = NULL; len = 0; status = 0
SetBlobCleared(m, blob) ==
    [(IF m.blobs[blob].data # NULL THEN free(m, <<"data", blob>>) ELSE m)
        EXCEPT !.blobs[blob].data = NULL,
               !.blobs[blob].len = 0,
               !.blobs[blob].status = 0]

\* pgp_set_blob leaving the size of the file view as it was
SetBlobCopied_stale(a, blob, data) ==
    IF ~a.ok THEN [m |-> a.m, r |-> SC_ERROR_OUT_OF_MEMORY]
    ELSE [m |-> [a.m EXCEPT !.blobs[blob].data = Ptr(data),
                            !.blobs[blob].len = Len(data)],
          r |-> SC_SUCCESS]

\* pgp_set_blob once tmp = malloc(len) has returned a
SetBlobCopied(a, blob, data) ==
    IF ~a.ok THEN [m |-> a.m, r |-> SC_ERROR_OUT_OF_MEMORY]
    ELSE [m |-> [a.m EXCEPT !.blobs[blob].data = Ptr(data),
                            !.blobs[blob].len = Len(data),
                            !.blobs[blob].file.size = Len(data)],
          r |-> SC_SUCCESS]

pgp_set_blob(m, blob, data) ==
    IF Len(data) > 0
    THEN SetBlobCopied(malloc(SetBlobCleared(m, blob), <<"data", blob>>), blob, data)
    ELSE [m |-> [SetBlobCleared(m, blob) EXCEPT !.blobs[blob].file.size = 0],
          r |-> SC_SUCCESS]

\* pgp_new_blob once calloc has returned a: the blob is linked at the end
\* of its parent's list, or NULL is returned and the file view is lost
NewBlobAlloc(a, parent, file_id, file_type, info) ==
    IF ~a.ok
    THEN [m |-> Orphaned(a.m, <<"file", Len(a.m.blobs) + 1>>), blob |-> 0]
    ELSE [m |-> [a.m EXCEPT !.blobs =
                    Append([a.m.blobs EXCEPT ![parent].files =
                                Append(@, Len(a.m.blobs) + 1)],
                           Blob(parent, file_id,
                                File(sc_append_file_id(a.m.blobs[parent].file.path,
                                                       file_id),
                                     file_type, 0),
                                info))],
          blob |-> Len(a.m.blobs) + 1]

\* the blob at address b owns the objects <<"blob", b>>, <<"file", b>> and,
\* with cached bytes, <<"data", b>>
pgp_new_blob(m, parent, file_id, file_type, info) ==
    NewBlobAlloc(malloc(sc_file_new(m, <<"file", Len(m.blobs) + 1>>),
                        <<"blob", Len(m.blobs) + 1>>),
                 parent, file_id, file_type, info)

(***************************************************************************)
(* The getters of the registry.  buf_len is the caller's buffer size.      *)
(***************************************************************************)
\* sizeof(buffer) is 2048 and buf_len 256 without the extended-APDU
\* capability; every answer of the modelled card is shorter than either.
BufLen == 2048

GetterResult(t, buf_len) ==
    LET r == ApduResult(t.reply)
    IN  [m |-> t.m, r |-> IF r < 0 THEN r ELSE Min(r, buf_len),
         buf |-> IF r < 0 THEN <<>> ELSE SubSeq(t.reply.data, 1, Min(r, buf_len))]

pgp_get_pubkey(m, tag, buf_len) ==
    GetterResult(sc_transmit_apdu(m, Apdu(SC_APDU_CASE_4, \H47, \H81, 0,
                     << (tag \div 256) % 256, tag % 256 >>)), buf_len)

pgp_get_data(m, tag, buf_len) ==
    GetterResult(sc_transmit_apdu(m, Apdu(SC_APDU_CASE_2, \Hca, tag \div 256, tag,
                     <<>>)), buf_len)

RECURSIVE pgp_get_pubkey_pem(_, _, _)
RECURSIVE pgp_read_blob(_, _)
RECURSIVE pgp_enumerate_blob(_, _)
RECURSIVE pgp_get_blob(_, _, _)

\* blob->info->get_fn(card, blob->id, buffer, buf_len); sc_get_data is the
\* framework's call of the driver's get_data operation, pgp_get_data
get_fn(m, info, id, buf_len) ==
    CASE pgp_objects[info].get_fn = "sc_get_data" -> pgp_get_data(m, id, buf_len)
      [] pgp_objects[info].get_fn = "pgp_get_pubkey" -> pgp_get_pubkey(m, id, buf_len)
      [] OTHER -> pgp_get_pubkey_pem(m, id, buf_len)

\* pgp_read_blob once the getter has returned g
ReadBlobGot(g, blob) ==
    IF g.r < 0
    THEN [m |-> [g.m EXCEPT !.blobs[blob].status = g.r], r |-> g.r]
    ELSE pgp_set_blob(g.m, blob, SubSeq(g.buf, 1, g.r))

pgp_read_blob(m, blob) ==
    IF m.blobs[blob].data # NULL THEN [m |-> m, r |-> SC_SUCCESS]
    ELSE IF m.blobs[blob].info = 0 THEN [m |-> m, r |-> m.blobs[blob].status]
    ELSE ReadBlobGot(get_fn(m, m.blobs[blob].info, m.blobs[blob].id, BufLen), blob)

(***************************************************************************)
(* The BER-TLV reader of the framework (asn1.c), as far as the driver      *)
(* relies on it: one element's class bits, tag number and length, and the  *)
(* size of its header; an error when the element is cut short.  Tags of    *)
(* one or two bytes and lengths of one byte are read.                      *)
(***************************************************************************)
SC_ERROR_INVALID_ASN1_OBJECT == -1401

TagError == [r |-> SC_ERROR_INVALID_ASN1_OBJECT, cla |-> 0, tag |-> 0, len |-> 0, hdr |-> 0]

sc_asn1_read_tag(buf) ==
    IF Len(buf) < 2 THEN TagError
    ELSE LET cla  == (buf[1] \div 32) * 32
             low  == buf[1] % 32
             long == low = 31
             hdr  == IF long THEN 3 ELSE 2
         IN  IF Len(buf) < hdr \/ (long /\ buf[2] >= 128) THEN TagError
             ELSE LET tag == IF long THEN low * 256 + buf[2] ELSE low
                      len == buf[hdr]
                  IN  IF len >= 128 \/ hdr + len > Len(buf) THEN TagError
                      ELSE [r |-> SC_SUCCESS, cla |-> cla, tag |-> tag,
                            len |-> len, hdr |-> hdr]

\* for (tmptag = tag; tmptag > 0x0FF; tmptag >>= 8) cla <<= 8;  tag |= cla;
\* (the class bits and the tag number's bits never overlap)
RECURSIVE UndoSplit(_, _, _)
UndoSplit(tag, cla, tmptag) ==
    IF tmptag > 255 THEN UndoSplit(tag, cla * 256, tmptag \div 256) ELSE tag + cla

\* the while loop of pgp_enumerate_blob, at offset in of blob->data
RECURSIVE EnumerateLoop(_, _, _)

\* the loop's body once pgp_new_blob has returned n for the element t:
\* pgp_set_blob(new, data, len); in = data + len
EnumerateChild(n, blob, in, t) ==
    IF n.blob = 0 THEN [m |-> n.m, r |-> SC_ERROR_OUT_OF_MEMORY]
    ELSE EnumerateLoop(pgp_set_blob(n.m, n.blob,
                                    SubSeq(Deref(n.m.blobs[blob].data),
                                           in + t.hdr + 1, in + t.hdr + t.len)).m,
                       blob, in + t.hdr + t.len)

\* the loop's body once sc_asn1_read_tag has returned t
EnumerateElement(m, blob, in, t) ==
    IF t.r < 0 THEN [m |-> m, r |-> SC_ERROR_OBJECT_NOT_VALID]
    ELSE EnumerateChild(pgp_new_blob(m, blob, UndoSplit(t.tag, t.cla, t.tag),
                                     IF (t.cla \div 32) % 2 = 1
                                     THEN SC_FILE_TYPE_DF ELSE SC_FILE_TYPE_WORKING_EF,
                                     0),
                        blob, in, t)

EnumerateLoop(m, blob, in) ==
    IF ~(m.blobs[blob].len > in) THEN [m |-> m, r |-> SC_SUCCESS]
    ELSE EnumerateElement(m, blob, in,
             sc_asn1_read_tag(SubSeq(Deref(m.blobs[blob].data), in + 1,
                                     m.blobs[blob].len)))

\* pgp_enumerate_blob once pgp_read_blob has returned rd
EnumerateRead(rd, blob) == IF rd.r < 0 THEN rd ELSE EnumerateLoop(rd.m, blob, 0)

pgp_enumerate_blob(m, blob) ==
    IF m.blobs[blob].files # <<>> THEN [m |-> m, r |-> SC_SUCCESS]
    ELSE EnumerateRead(pgp_read_blob(m, blob), blob)

\* the first child of blob with the id, or 0
FindChild(bs, blob, id) ==
    LET hits == { k \in 1..Len(bs[blob].files) : bs[bs[blob].files[k]].id = id }
    IN  IF hits = {} THEN 0
        ELSE bs[blob].files[CHOOSE k \in hits : \A j \in hits : k <= j]

\* pgp_get_blob returning what pgp_read_blob returned for the child
GetBlobRead_checked(rd, child) ==
    [m |-> rd.m, r |-> IF rd.r < 0 THEN rd.r ELSE SC_SUCCESS,
     ret |-> IF rd.r < 0 THEN 0 ELSE child, enum |-> SC_SUCCESS, read |-> rd.r]

\* enum and read are not C results: they tell the walk's trace what the
\* expansion of blob and the (discarded) read of the child returned
\* (void) pgp_read_blob(card, child) has returned rd; *ret = child
GetBlobRead(rd, child) ==
    [m |-> rd.m, r |-> SC_SUCCESS, ret |-> child, enum |-> SC_SUCCESS, read |-> rd.r]

\* pgp_get_blob after its for loop has stopped at child (0: at the list's end)
GetBlobChild(m, child) ==
    IF child # 0 THEN GetBlobRead(pgp_read_blob(m, child), child)
    ELSE [m |-> m, r |-> SC_ERROR_FILE_NOT_FOUND, ret |-> 0,
          enum |-> SC_SUCCESS, read |-> 0]

\* pgp_get_blob once pgp_enumerate_blob has returned e
GetBlobFind(e, blob, id) ==
    IF e.r < 0 THEN [m |-> e.m, r |-> e.r, ret |-> 0, enum |-> e.r, read |-> 0]
    ELSE GetBlobChild(e.m, FindChild(e.m.blobs, blob, id))

pgp_get_blob(m, blob, id) == GetBlobFind(pgp_enumerate_blob(m, blob), blob, id)

\* the framework's encoder of an RSA public key (sc_pkcs15_encode_pubkey):
\* a SEQUENCE of the two INTEGERs modulus and exponent
sc_pkcs15_encode_pubkey(modulus, exponent) ==
    LET body == (<<2, Len(modulus)>> \o modulus) \o (<<2, Len(exponent)>> \o exponent)
    IN  <<\H30, Len(body)>> \o body

\* the bytes at a blob's data pointer (none behind the NULL pointer)
DataOf(bs, blob) == IF bs[blob].data = NULL THEN <<>> ELSE Deref(bs[blob].data)

\* priv->mf: the root is the first blob the session allocates
mf == 1

\* pgp_get_pubkey_pem returns r, the first negative result of its
\* or-chain: PemFail; the chain's six calls, each taken up where the call
\* before it has returned: PemExp .. PemEncode
PemFail(x) == [m |-> x.m, r |-> x.r, buf |-> <<>>]

\* memcpy(buf, data, len) of the encoded key, cut to buf_len
PemCopy(m, data, buf_len) ==
    [m |-> m, r |-> Min(Len(data), buf_len),
     buf |-> SubSeq(data, 1, Min(Len(data), buf_len))]

PemEncode(r6, mod_blob, exp_blob, buf_len) ==
    IF r6.r < 0 THEN PemFail(r6)
    ELSE PemCopy(r6.m, sc_pkcs15_encode_pubkey(DataOf(r6.m.blobs, mod_blob),
                                               DataOf(r6.m.blobs, exp_blob)), buf_len)

PemReadExp(r5, mod_blob, exp_blob, buf_len) ==
    IF r5.r < 0 THEN PemFail(r5)
    ELSE PemEncode(pgp_read_blob(r5.m, exp_blob), mod_blob, exp_blob, buf_len)

PemReadMod(g4, mod_blob, buf_len) ==
    IF g4.r < 0 THEN PemFail(g4)
    ELSE PemReadExp(pgp_read_blob(g4.m, mod_blob), mod_blob, g4.ret, buf_len)

PemExp(g3, blob, buf_len) ==
    IF g3.r < 0 THEN PemFail(g3)
    ELSE PemReadMod(pgp_get_blob(g3.m, blob, \H0082), g3.ret, buf_len)

PemMod(g2, buf_len) ==
    IF g2.r < 0 THEN PemFail(g2)
    ELSE PemExp(pgp_get_blob(g2.m, g2.ret, \H0081), g2.ret, buf_len)

PemKey(g1, buf_len) ==
    IF g1.r < 0 THEN PemFail(g1)
    ELSE PemMod(pgp_get_blob(g1.m, g1.ret, \H7f49), buf_len)

pgp_get_pubkey_pem(m, tag, buf_len) ==
    PemKey(pgp_get_blob(m, mf, tag - (tag % 2)), buf_len)

(***************************************************************************)
(* The path resolver.                                                      *)
(***************************************************************************)
Path(type, value) == [type |-> type, value |-> value, len |-> Len(value)]

\* iso_ops->select_file with a DF name: the ISO driver's SELECT command
\* (INS A4, P1 04) and, from the card's answer, a fresh file view.  The ISO
\* driver knows nothing of the session's private record.
IsoSelected(t, path, want_ret) ==
    [m |-> t.m,
     r |-> IF ApduResult(t.reply) < 0 THEN ApduResult(t.reply) ELSE SC_SUCCESS,
     file |-> IF ApduResult(t.reply) < 0 \/ ~want_ret THEN NULL
              ELSE Ptr(File(path.value, SC_FILE_TYPE_DF, 0))]

iso_select_file(m, path, want_ret) ==
    IsoSelected(sc_transmit_apdu(m, Apdu(SC_APDU_CASE_4, \Ha4, 4, 0, path.value)),
                path, want_ret)

\* one step of the walk, for the trace: the blob searched, the id looked
\* for, what the expansion returned, the child found (0: none) and what
\* its read returned
Step(blob, id, g) == [blob |-> blob, id |-> id, enum |-> g.enum, child |-> g.ret,
                      read |-> g.read]

\* for (n = 0; n < path->len; n += 2) of pgp_select_file
RECURSIVE SelectLoop(_, _, _, _)

\* the machine after a step, the step added to the trace
Traced(g, blob, id) == [g.m EXCEPT !.trace = Append(@, Step(blob, id, g))]

\* the loop's body once pgp_get_blob has returned g
SelectStep(g, blob, id, value, n) ==
    IF g.r < 0 THEN [m |-> Traced(g, blob, id), r |-> g.r, blob |-> 0]
    ELSE SelectLoop(Traced(g, blob, id), g.ret, value, n + 2)

SelectLoop(m, blob, value, n) ==
    IF ~(n < Len(value)) THEN [m |-> m, r |-> SC_SUCCESS, blob |-> blob]
    ELSE SelectStep(pgp_get_blob(m, blob, value[n + 1] * 256 + value[n + 2]),
                    blob, value[n + 1] * 256 + value[n + 2], value, n)

\* a pgp_select_file that drops the selection when the delegated select fails
SelectDelegated_resets(i, cur) ==
    [m |-> i.m, r |-> i.r, current |-> IF i.r < 0 THEN 0 ELSE cur, file |-> i.file]

\* pgp_select_file once iso_ops->select_file has returned i
SelectDelegated(i, cur) == [m |-> i.m, r |-> i.r, current |-> cur, file |-> i.file]

\* a pgp_select_file that falls back to the root when its walk fails
SelectWalked_to_root(w, want_ret) ==
    IF w.r < 0
    THEN [m |-> w.m, r |-> w.r, current |-> mf, file |-> NULL]
    ELSE [m |-> w.m, r |-> SC_SUCCESS, current |-> w.blob,
          file |-> IF want_ret THEN Ptr(w.m.blobs[w.blob].file) ELSE NULL]

\* pgp_select_file once its loop has ended with w: priv->current is set,
\* and sc_file_dup copies the blob's file view to *ret
SelectWalked(w, want_ret) ==
    IF w.r < 0
    THEN [m |-> w.m, r |-> w.r, current |-> 0, file |-> NULL]
    ELSE [m |-> w.m, r |-> SC_SUCCESS, current |-> w.blob,
          file |-> IF want_ret THEN Ptr(w.m.blobs[w.blob].file) ELSE NULL]

\* cur is priv->current; want_ret tells whether ret is a non-NULL pointer
pgp_select_file(m, cur, path, want_ret) ==
    IF path.type = SC_PATH_TYPE_DF_NAME
    THEN SelectDelegated(iso_select_file(m, path, want_ret), cur)
    ELSE IF path.type # SC_PATH_TYPE_PATH
    THEN [m |-> m, r |-> SC_ERROR_INVALID_ARGUMENTS, current |-> cur, file |-> NULL]
    ELSE IF path.len < 2 \/ path.len % 2 = 1
    THEN [m |-> m, r |-> SC_ERROR_INVALID_ARGUMENTS, current |-> cur, file |-> NULL]
    ELSE SelectWalked(SelectLoop(m, mf,
                                 IF SubSeq(path.value, 1, 2) = <<\H3f, \H00>>
                                 THEN SubSeq(path.value, 3, path.len)
                                 ELSE path.value, 0),
                      want_ret)

\* the for loop of pgp_list_files over the children from the i-th on, with
\* k bytes already in buf
RECURSIVE ListLoop(_, _, _, _, _)
ListLoop(bs, files, i, buf, buflen) ==
    IF i > Len(files) \/ Len(buf) + 2 > buflen THEN buf
    ELSE ListLoop(bs, files, i + 1,
                  buf \o << (bs[files[i]].id \div 256) % 256, bs[files[i]].id % 256 >>,
                  buflen)

\* a pgp_list_files returning the count of ids, not of bytes
ListWritten_ids(m, buf) == [m |-> m, r |-> Len(buf) \div 2, buf |-> buf, fault |-> "none"]

\* return k, with the k bytes the loop has written to buf
ListWritten(m, buf) == [m |-> m, r |-> Len(buf), buf |-> buf, fault |-> "none"]

\* pgp_list_files once pgp_enumerate_blob has returned e
ListEnumerated(e, cur, buflen) ==
    IF e.r < 0 THEN [m |-> e.m, r |-> e.r, buf |-> <<>>, fault |-> "none"]
    ELSE ListWritten(e.m, ListLoop(e.m.blobs, e.m.blobs[cur].files, 1, <<>>, buflen))

\* fault tells of undefined behaviour: blob->file read through a NULL blob
pgp_list_files(m, cur, buflen) ==
    IF cur = 0
    THEN [m |-> m, r |-> 0, buf |-> <<>>, fault |-> "null_deref"]
    ELSE IF m.blobs[cur].file.type # SC_FILE_TYPE_DF
    THEN [m |-> m, r |-> SC_ERROR_OBJECT_NOT_VALID, buf |-> <<>>, fault |-> "none"]
    ELSE ListEnumerated(pgp_enumerate_blob(m, cur), cur, buflen)

(***************************************************************************)
(* The binary reader.                                                      *)
(***************************************************************************)
\* memcpy(dst, src + idx, count) from a buffer of the bytes src: what lands
\* in dst, and whether the copy read past the buffer's end
memcpy(src, idx, count) ==
    [bytes |-> SubSeq(src, idx + 1, Min(idx + count, Len(src))),
     overread |-> idx + count > Len(src)]

\* the count of pgp_read_binary left as the caller gave it
ReadCount_unclamped(idx, count, len) == count

ReadCount(idx, count, len) == IF idx + count > len THEN len - idx ELSE count

\* memcpy(buf, blob->data + idx, count); return count
ReadBinaryCopy(m, c, count) ==
    [m |-> m, r |-> count, buf |-> c.bytes,
     fault |-> IF c.overread THEN "overread" ELSE "none"]

\* pgp_read_binary once pgp_read_blob has returned rd
ReadBinaryLoaded(rd, cur, idx, count) ==
    IF rd.r < 0 THEN [m |-> rd.m, r |-> rd.r, buf |-> <<>>, fault |-> "none"]
    ELSE IF idx > rd.m.blobs[cur].len
    THEN [m |-> rd.m, r |-> SC_ERROR_INCORRECT_PARAMETERS, buf |-> <<>>, fault |-> "none"]
    ELSE ReadBinaryCopy(rd.m,
                        memcpy(DataOf(rd.m.blobs, cur), idx,
                               ReadCount(idx, count, rd.m.blobs[cur].len)),
                        ReadCount(idx, count, rd.m.blobs[cur].len))

pgp_read_binary(m, cur, idx, count) ==
    IF cur = 0
    THEN [m |-> m, r |-> SC_ERROR_FILE_NOT_FOUND, buf |-> <<>>, fault |-> "none"]
    ELSE IF m.blobs[cur].file.type # SC_FILE_TYPE_WORKING_EF
    THEN [m |-> m, r |-> SC_ERROR_FILE_NOT_FOUND, buf |-> <<>>, fault |-> "none"]
    ELSE ReadBinaryLoaded(pgp_read_blob(m, cur), cur, idx, count)

\* a pgp_write_binary that claims to have written count bytes
pgp_write_binary_accepts(m, idx, buf, count) == [m |-> m, r |-> count]

pgp_write_binary(m, idx, buf, count) == [m |-> m, r |-> SC_ERROR_NOT_SUPPORTED]

pgp_put_data(m, tag, buf, buf_len) == [m |-> m, r |-> SC_ERROR_NOT_SUPPORTED]

(***************************************************************************)
(* The security environment and the crypto operations.                     *)
(***************************************************************************)
\* sc_security_env_t, as far as the driver reads it: key_ref[0] is read
\* whatever key_ref_len says
SecEnv(flags, operation, algorithm, key_ref0, key_ref_len) ==
    [flags |-> flags, operation |-> operation, algorithm |-> algorithm,
     key_ref |-> <<key_ref0>>, key_ref_len |-> key_ref_len]

\* priv->sec_env after calloc
ZeroEnv == SecEnv({}, 0, 0, 0, 0)

\* pgp_set_security_env without the key checks of its switch
pgp_set_security_env_anykey(sec, env) ==
    IF "ALG_PRESENT" \in env.flags /\ env.algorithm # SC_ALGORITHM_RSA
    THEN [r |-> SC_ERROR_INVALID_ARGUMENTS, sec_env |-> sec]
    ELSE IF "KEY_REF_PRESENT" \notin env.flags \/ env.key_ref_len # 1
    THEN [r |-> SC_ERROR_INVALID_ARGUMENTS, sec_env |-> sec]
    ELSE IF "FILE_REF_PRESENT" \in env.flags
    THEN [r |-> SC_ERROR_INVALID_ARGUMENTS, sec_env |-> sec]
    ELSE IF env.operation \in {SC_SEC_OPERATION_SIGN, SC_SEC_OPERATION_DECIPHER}
    THEN [r |-> SC_SUCCESS, sec_env |-> env]
    ELSE [r |-> SC_ERROR_INVALID_ARGUMENTS, sec_env |-> sec]

\* pgp_set_security_env storing the environment before it checks the key
\* reference against the operation
pgp_set_security_env_stores_first(sec, env) ==
    IF "ALG_PRESENT" \in env.flags /\ env.algorithm # SC_ALGORITHM_RSA
    THEN [r |-> SC_ERROR_INVALID_ARGUMENTS, sec_env |-> sec]
    ELSE IF "KEY_REF_PRESENT" \notin env.flags \/ env.key_ref_len # 1
    THEN [r |-> SC_ERROR_INVALID_ARGUMENTS, sec_env |-> sec]
    ELSE IF "FILE_REF_PRESENT" \in env.flags
    THEN [r |-> SC_ERROR_INVALID_ARGUMENTS, sec_env |-> sec]
    ELSE IF env.operation = SC_SEC_OPERATION_SIGN
    THEN IF env.key_ref[1] # 0 /\ env.key_ref[1] # 2
         THEN [r |-> SC_ERROR_NOT_SUPPORTED, sec_env |-> env]
         ELSE [r |-> SC_SUCCESS, sec_env |-> env]
    ELSE IF env.operation = SC_SEC_OPERATION_DECIPHER
    THEN IF env.key_ref[1] # 1
         THEN [r |-> SC_ERROR_NOT_SUPPORTED, sec_env |-> env]
         ELSE [r |-> SC_SUCCESS, sec_env |-> env]
    ELSE [r |-> SC_ERROR_INVALID_ARGUMENTS, sec_env |-> sec]


pgp_set_security_env(sec, env) ==
    IF "ALG_PRESENT" \in env.flags /\ env.algorithm # SC_ALGORITHM_RSA
    THEN [r |-> SC_ERROR_INVALID_ARGUMENTS, sec_env |-> sec]
    ELSE IF "KEY_REF_PRESENT" \notin env.flags \/ env.key_ref_len # 1
    THEN [r |-> SC_ERROR_INVALID_ARGUMENTS, sec_env |-> sec]
    ELSE IF "FILE_REF_PRESENT" \in env.flags
    THEN [r |-> SC_ERROR_INVALID_ARGUMENTS, sec_env |-> sec]
    ELSE IF env.operation = SC_SEC_OPERATION_SIGN
    THEN IF env.key_ref[1] # 0 /\ env.key_ref[1] # 2
         THEN [r |-> SC_ERROR_NOT_SUPPORTED, sec_env |-> sec]
         ELSE [r |-> SC_SUCCESS, sec_env |-> env]
    ELSE IF env.operation = SC_SEC_OPERATION_DECIPHER
    THEN IF env.key_ref[1] # 1
         THEN [r |-> SC_ERROR_NOT_SUPPORTED, sec_env |-> sec]
         ELSE [r |-> SC_SUCCESS, sec_env |-> env]
    ELSE [r |-> SC_ERROR_INVALID_ARGUMENTS, sec_env |-> sec]

\* the tail both crypto operations share: lc, data, le, resp; transmit;
\* check the status word; return apdu.resplen
CryptoResult(t, outlen) ==
    LET r == ApduResult(t.reply)
    IN  [m |-> t.m, r |-> IF r < 0 THEN r ELSE Min(r, outlen),
         buf |-> IF r < 0 THEN <<>> ELSE SubSeq(t.reply.data, 1, Min(r, outlen))]

\* pgp_compute_signature sending PSO SIGNATURE for either signing key
pgp_compute_signature_pso(m, env, data, outlen) ==
    IF env.operation # SC_SEC_OPERATION_SIGN
    THEN [m |-> m, r |-> SC_ERROR_INVALID_ARGUMENTS, buf |-> <<>>]
    ELSE IF env.key_ref[1] = 0 \/ env.key_ref[1] = 2
    THEN CryptoResult(sc_transmit_apdu(m, Apdu(SC_APDU_CASE_4, \H2a, \H9e, \H9a, data)),
                      outlen)
    ELSE [m |-> m, r |-> SC_ERROR_INVALID_ARGUMENTS, buf |-> <<>>]

\* pgp_compute_signature without its check of the stored operation
pgp_compute_signature_ungated(m, env, data, outlen) ==
    IF env.key_ref[1] = 0
    THEN CryptoResult(sc_transmit_apdu(m, Apdu(SC_APDU_CASE_4, \H2a, \H9e, \H9a, data)),
                      outlen)
    ELSE IF env.key_ref[1] = 2
    THEN CryptoResult(sc_transmit_apdu(m, Apdu(SC_APDU_CASE_4, \H88, 0, 0, data)),
                      outlen)
    ELSE [m |-> m, r |-> SC_ERROR_INVALID_ARGUMENTS, buf |-> <<>>]

pgp_compute_signature(m, env, data, outlen) ==
    IF env.operation # SC_SEC_OPERATION_SIGN
    THEN [m |-> m, r |-> SC_ERROR_INVALID_ARGUMENTS, buf |-> <<>>]
    ELSE IF env.key_ref[1] = 0
    THEN CryptoResult(sc_transmit_apdu(m, Apdu(SC_APDU_CASE_4, \H2a, \H9e, \H9a, data)),
                      outlen)
    ELSE IF env.key_ref[1] = 2
    THEN CryptoResult(sc_transmit_apdu(m, Apdu(SC_APDU_CASE_4, \H88, 0, 0, data)),
                      outlen)
    ELSE [m |-> m, r |-> SC_ERROR_INVALID_ARGUMENTS, buf |-> <<>>]

\* pgp_decipher sending its input without the padding indicator
pgp_decipher_unpadded(m, env, in, outlen) ==
    IF env.operation # SC_SEC_OPERATION_DECIPHER
    THEN [m |-> m, r |-> SC_ERROR_INVALID_ARGUMENTS, buf |-> <<>>]
    ELSE IF env.key_ref[1] = 1
    THEN CryptoResult(sc_transmit_apdu(m, Apdu(SC_APDU_CASE_4, \H2a, \H80, \H86, in)),
                      outlen)
    ELSE [m |-> m, r |-> SC_ERROR_INVALID_ARGUMENTS, buf |-> <<>>]

\* pgp_decipher returning after the transmission without free(temp)
DecipherSent_keeps(t, outlen) == CryptoResult(t, outlen)

\* pgp_decipher once the card has answered t: free(temp), then the two
\* SC_TEST_RET and return apdu.resplen
DecipherSent(t, outlen) ==
    CryptoResult([m |-> free(t.m, <<"temp", 0>>), reply |-> t.reply], outlen)

\* pgp_decipher once temp = malloc(inlen + 1) has returned a
DecipherPadded(a, env, in, outlen) ==
    IF ~a.ok THEN [m |-> a.m, r |-> SC_ERROR_OUT_OF_MEMORY, buf |-> <<>>]
    ELSE IF env.operation # SC_SEC_OPERATION_DECIPHER
    THEN [m |-> free(a.m, <<"temp", 0>>), r |-> SC_ERROR_INVALID_ARGUMENTS, buf |-> <<>>]
    ELSE IF env.key_ref[1] = 1
    THEN DecipherSent(sc_transmit_apdu(a.m, Apdu(SC_APDU_CASE_4, \H2a, \H80, \H86,
                                                 <<0>> \o in)),
                      outlen)
    ELSE IF env.key_ref[1] = 0 \/ env.key_ref[1] = 2
    THEN [m |-> free(a.m, <<"temp", 0>>), r |-> SC_ERROR_INVALID_ARGUMENTS, buf |-> <<>>]
    ELSE [m |-> free(a.m, <<"temp", 0>>), r |-> SC_ERROR_INVALID_ARGUMENTS, buf |-> <<>>]

pgp_decipher(m, env, in, outlen) ==
    DecipherPadded(malloc(m, <<"temp", 0>>), env, in, outlen)

(***************************************************************************)
(* Lifecycle.                                                              *)
(***************************************************************************)
\* pgp_free_blob: the file view, the cached bytes, the blob
pgp_free_blob(m, blob) ==
    free(IF m.blobs[blob].data # NULL
         THEN free(free(m, <<"file", blob>>), <<"data", blob>>)
         ELSE free(m, <<"file", blob>>),
         <<"blob", blob>>)

\* pgp_iterate_blobs(blob, level, pgp_free_blob): the children first, down
\* to the depth level, then the blob itself
RECURSIVE pgp_iterate_blobs(_, _, _)

\* the while loop of pgp_iterate_blobs, at the k-th child of blob
RECURSIVE IterateChildren(_, _, _, _)
IterateChildren(m, blob, k, level) ==
    IF k > Len(m.blobs[blob].files) THEN m
    ELSE IterateChildren(pgp_iterate_blobs(m, m.blobs[blob].files[k], level - 1),
                         blob, k + 1, level)

\* pgp_iterate_blobs not descending to the children
pgp_iterate_blobs_shallow(m, blob, level) ==
    IF blob = 0 THEN m ELSE pgp_free_blob(m, blob)

pgp_iterate_blobs(m, blob, level) ==
    IF blob = 0 THEN m
    ELSE pgp_free_blob(IF level > 0
                       THEN IterateChildren(m, blob, 1, level)
                       ELSE m,
                       blob)

\* free(priv); card->drv_data = NULL, once the tree has been walked: the
\* blobs' addresses mean nothing any more
FinishFreed(m) ==
    [m |-> [free(m, <<"priv", 0>>) EXCEPT !.blobs = <<>>],
     r |-> SC_SUCCESS, drv_data |-> NULL]

pgp_finish(m) == FinishFreed(pgp_iterate_blobs(m, mf, 99))

OpenPgpAid == Path(SC_PATH_TYPE_DF_NAME, <<\Hd2, \H76, \H00, \H01, \H24, \H01>>)

\* the loop of pgp_init over pgp_objects, from row i on; child is what
\* pgp_new_blob returned last
RECURSIVE SeedLoop(_, _, _)

\* the loop's body once pgp_new_blob has returned n: break on NULL
SeedNext(n, i) ==
    IF n.blob = 0 THEN [m |-> n.m, child |-> 0]
    ELSE SeedLoop(n.m, i + 1, n.blob)

SeedLoop(m, i, child) ==
    IF i > Len(pgp_objects) THEN [m |-> m, child |-> child]
    ELSE SeedNext(pgp_new_blob(m, mf, pgp_objects[i].id,
                               IF pgp_objects[i].constructed = 1
                               THEN SC_FILE_TYPE_DF ELSE SC_FILE_TYPE_WORKING_EF,
                               i),
                  i)

\* pgp_init once pgp_finish has torn the session down
InitTornDown(f) ==
    [m |-> f.m, r |-> SC_ERROR_OUT_OF_MEMORY, drv_data |-> f.drv_data, current |-> 0]

\* pgp_init once the loop over pgp_objects has ended with s
InitSeeded(s) ==
    IF s.child = 0 THEN InitTornDown(pgp_finish(s.m))
    ELSE [m |-> s.m, r |-> SC_SUCCESS, drv_data |-> Ptr("priv"), current |-> mf]

\* pgp_init once iso_ops->select_file has returned s: the file view it
\* allocated becomes the root's
InitSelected(s) ==
    IF s.r < 0
    THEN [m |-> free(free(s.m, <<"blob", mf>>), <<"priv", 0>>), r |-> s.r,
          drv_data |-> NULL, current |-> 0]
    ELSE InitSeeded(SeedLoop([sc_file_new(s.m, <<"file", mf>>) EXCEPT !.blobs =
                                << Blob(0, \H3f00,
                                        File(<<\H3f, \H00>>, SC_FILE_TYPE_DF, \H3f00),
                                        0) >>],
                             1, 0))

\* pgp_init once priv->mf = calloc(...) has returned a
InitMf(a) ==
    IF ~a.ok
    THEN [m |-> free(a.m, <<"priv", 0>>), r |-> SC_ERROR_OUT_OF_MEMORY,
          drv_data |-> NULL, current |-> 0]
    ELSE InitSelected(iso_select_file(a.m, OpenPgpAid, TRUE))

\* pgp_init once priv = calloc(...) has returned a
InitPriv(a) ==
    IF ~a.ok
    THEN [m |-> a.m, r |-> SC_ERROR_OUT_OF_MEMORY, drv_data |-> NULL, current |-> 0]
    ELSE InitMf(malloc(a.m, <<"blob", mf>>))

pgp_init(m) == InitPriv(malloc(m, <<"priv", 0>>))

(***************************************************************************)
(* The arguments the callers pass.                                         *)
(***************************************************************************)
SelectPaths ==
    { Path(SC_PATH_TYPE_PATH, <<\H3f, \H00>>),
      Path(SC_PATH_TYPE_PATH, <<\H3f, \H00, \H00, \H4f>>),
      Path(SC_PATH_TYPE_PATH, <<\H00, \H65>>),
      Path(SC_PATH_TYPE_PATH, <<\H3f, \H00, \H00, \H65, \H00, \H5b>>),
      Path(SC_PATH_TYPE_PATH, <<\H00, \H66>>),
      Path(SC_PATH_TYPE_PATH, <<\H3f, \H00, \H00>>),
      Path(SC_PATH_TYPE_PATH, <<>>),
      Path(SC_PATH_TYPE_FILE_ID, <<\H00, \H4f>>),
      OpenPgpAid }

ListBufLens == {0, 3, 64}

CryptoInputs == { <<>>, <<\H11>>, <<\H11, \H22>> }

CryptoOutLens == {2, 256}

SecEnvFlags == SUBSET {"ALG_PRESENT", "KEY_REF_PRESENT", "FILE_REF_PRESENT"}

SecEnvs ==
    { SecEnv(f, op, alg, k, n) :
        f \in SecEnvFlags,
        op \in {SC_SEC_OPERATION_DECIPHER, SC_SEC_OPERATION_SIGN,
                SC_SEC_OPERATION_AUTHENTICATE},
        alg \in {SC_ALGORITHM_RSA, SC_ALGORITHM_DSA},
        k \in 0..3,
        n \in 1..2 }

(***************************************************************************)
(* The handler calls.                                                      *)
(***************************************************************************)
\* every way the card can answer the commands of the handler run F, which
\* takes the tape of answers: the tape grows by one answer whenever the
\* run found it too short, up to MaxCmds answers
RECURSIVE CardRuns(_, _)
CardRuns(F(_), tape) ==
    UNION { IF ~o.m.short \/ Len(tape) >= MaxCmds THEN {o}
            ELSE UNION { CardRuns(F, Append(tape, reply)) : reply \in CardReplies }
            : o \in {F(tape)} }

Observe(c, r, o, m, f) ==
    /\ call' = c
    /\ ret' = r
    /\ out' = o
    /\ apdus' = m.apdus
    /\ trace' = m.trace
    /\ fault' = f
    /\ heap' = m.heap
    /\ freed' = m.freed

Running == fault # "segfault"
Ready == drv_data # NULL /\ Running

Init ==
    /\ drv_data = NULL
    /\ blobs = <<>>
    /\ current = 0
    /\ sec_env = ZeroEnv
    /\ call = [op |-> "none"]
    /\ ret = 0
    /\ out = <<>>
    /\ apdus = <<>>
    /\ trace = <<>>
    /\ fault = "none"
    /\ good_env = NULL
    /\ heap = {}
    /\ freed = <<>>

\* an allocation may be made to fail while few file views are lost
Faulty(n) == IF n = NoFault THEN TRUE ELSE Cardinality(Orphans(heap)) < MaxOrphans

PgpInit(faults) ==
    /\ Running
    /\ drv_data = NULL
    /\ \E n \in faults :
        /\ Faulty(n)
        /\ \E o \in CardRuns(LAMBDA t : pgp_init(Failing(Machine(<<>>, t), n)), <<>>) :
            /\ drv_data' = o.drv_data
            /\ blobs' = IF o.r < 0 THEN <<>> ELSE o.m.blobs
            /\ current' = o.current
            /\ sec_env' = ZeroEnv
            /\ good_env' = NULL
            /\ Observe([op |-> "init"], o.r, <<>>, o.m, "none")

PgpFinish ==
    /\ Ready
    /\ \E o \in {pgp_finish(Machine(blobs, <<>>))} :
        /\ drv_data' = o.drv_data
        /\ blobs' = o.m.blobs
        /\ current' = 0
        /\ sec_env' = ZeroEnv
        /\ good_env' = NULL
        /\ Observe([op |-> "finish"], o.r, <<>>, o.m, "none")

SelectFile(paths, wants, faults) ==
    /\ Ready
    /\ \E path \in paths, want_ret \in wants, n \in faults :
        /\ Faulty(n)
        /\ \E o \in CardRuns(LAMBDA t : pgp_select_file(Failing(Machine(blobs, t), n),
                                                        current, path, want_ret),
                             <<>>) :
            /\ blobs' = o.m.blobs
            /\ current' = o.current
            /\ Observe([op |-> "select_file", path |-> path, want_ret |-> want_ret],
                       o.r, o.file, o.m, "none")
            /\ UNCHANGED <<drv_data, sec_env, good_env>>

\* Reading blob->file through the NULL pointer is undefined: the process
\* dies of it, or the read yields some word that is not SC_FILE_TYPE_DF and
\* the handler returns.
ListFiles(faults) ==
    /\ Ready
    /\ \E buflen \in ListBufLens, n \in faults :
        /\ Faulty(n)
        /\ \E o \in CardRuns(LAMBDA t : pgp_list_files(Failing(Machine(blobs, t), n),
                                                       current, buflen),
                             <<>>) :
            /\ blobs' = o.m.blobs
            /\ \/ /\ o.fault = "none"
                  /\ Observe([op |-> "list_files", buflen |-> buflen],
                             o.r, o.buf, o.m, "none")
               \/ /\ o.fault = "null_deref"
                  /\ \E f \in {"segfault", "null_read"} :
                        Observe([op |-> "list_files", buflen |-> buflen],
                                IF f = "segfault" THEN 0 ELSE SC_ERROR_OBJECT_NOT_VALID,
                                <<>>, o.m, f)
            /\ UNCHANGED <<drv_data, current, sec_env, good_env>>

ReadBinary(idxs, faults) ==
    /\ Ready
    /\ \E idx \in idxs, count \in 0..MaxCount, n \in faults :
        /\ Faulty(n)
        /\ \E o \in CardRuns(LAMBDA t : pgp_read_binary(Failing(Machine(blobs, t), n),
                                                        current, idx, count),
                             <<>>) :
            /\ blobs' = o.m.blobs
            /\ Observe([op |-> "read_binary", idx |-> idx, count |-> count],
                       o.r, o.buf, o.m, o.fault)
            /\ UNCHANGED <<drv_data, current, sec_env, good_env>>

WriteBinary ==
    /\ Ready
    /\ \E idx \in {0, 1}, buf \in {<<>>, <<\Haa>>} :
        LET o == pgp_write_binary(Machine(blobs, <<>>), idx, buf, Len(buf))
        IN  /\ blobs' = o.m.blobs
            /\ Observe([op |-> "write_binary", idx |-> idx, buf |-> buf],
                       o.r, <<>>, o.m, "none")
            /\ UNCHANGED <<drv_data, current, sec_env, good_env>>

PutData ==
    /\ Ready
    /\ \E tag \in {\H005e, \H0066}, buf \in {<<>>, <<\Haa>>} :
        LET o == pgp_put_data(Machine(blobs, <<>>), tag, buf, Len(buf))
        IN  /\ blobs' = o.m.blobs
            /\ Observe([op |-> "put_data", tag |-> tag, buf |-> buf],
                       o.r, <<>>, o.m, "none")
            /\ UNCHANGED <<drv_data, current, sec_env, good_env>>

SetSecurityEnv(envs) ==
    /\ Ready
    /\ \E env \in envs :
        LET o == pgp_set_security_env(sec_env, env)
        IN  /\ sec_env' = o.sec_env
            /\ good_env' = IF o.r = SC_SUCCESS THEN Ptr(env) ELSE good_env
            /\ Observe([op |-> "set_security_env", env |-> env], o.r, <<>>,
                       Machine(blobs, <<>>), "none")
            /\ UNCHANGED <<drv_data, blobs, current>>

ComputeSignature ==
    /\ Ready
    /\ \E data \in CryptoInputs, outlen \in CryptoOutLens :
        \E o \in CardRuns(LAMBDA t : pgp_compute_signature(Machine(blobs, t), sec_env,
                                                           data, outlen), <<>>) :
            /\ Observe([op |-> "compute_signature", data |-> data, outlen |-> outlen],
                       o.r, o.buf, o.m, "none")
            /\ UNCHANGED <<drv_data, blobs, current, sec_env, good_env>>

Decipher(faults) ==
    /\ Ready
    /\ \E in \in CryptoInputs, outlen \in CryptoOutLens, n \in faults :
        \E o \in CardRuns(LAMBDA t : pgp_decipher(Failing(Machine(blobs, t), n), sec_env,
                                                  in, outlen), <<>>) :
            /\ Observe([op |-> "decipher", in |-> in, outlen |-> outlen],
                       o.r, o.buf, o.m, "none")
            /\ UNCHANGED <<drv_data, blobs, current, sec_env, good_env>>

\* the whole driver, its callers passing a few paths and environments
FewPaths ==
    { Path(SC_PATH_TYPE_PATH, <<\H3f, \H00>>),
      Path(SC_PATH_TYPE_PATH, <<\H3f, \H00, \H00, \H4f>>),
      Path(SC_PATH_TYPE_PATH, <<\H00, \H66>>),
      OpenPgpAid }

FewSecEnvs ==
    { SecEnv({"KEY_REF_PRESENT"}, SC_SEC_OPERATION_SIGN, SC_ALGORITHM_RSA, 0, 1),
      SecEnv({"KEY_REF_PRESENT"}, SC_SEC_OPERATION_DECIPHER, SC_ALGORITHM_RSA, 1, 1),
      SecEnv({"KEY_REF_PRESENT"}, SC_SEC_OPERATION_SIGN, SC_ALGORITHM_RSA, 1, 1) }

Next ==
    \/ PgpInit({NoFault})
    \/ PgpFinish
    \/ SelectFile(FewPaths, BOOLEAN, {NoFault})
    \/ ListFiles({NoFault})
    \/ ReadBinary(0..MaxCount, {NoFault})
    \/ WriteBinary
    \/ PutData
    \/ SetSecurityEnv(FewSecEnvs)
    \/ ComputeSignature
    \/ Decipher({NoFault})

Spec == Init /\ [][Next]_vars

\* the file system side, with every path of SelectPaths
NextFs ==
    \/ PgpInit({NoFault})
    \/ PgpFinish
    \/ SelectFile(SelectPaths, BOOLEAN, {NoFault})
    \/ ListFiles({NoFault})
    \/ ReadBinary(0..MaxCount, {NoFault})
    \/ WriteBinary
    \/ PutData

SpecFs == Init /\ [][NextFs]_vars

\* the crypto side, with every environment of SecEnvs
NextCrypto ==
    \/ PgpInit({NoFault})
    \/ PgpFinish
    \/ SetSecurityEnv(SecEnvs)
    \/ ComputeSignature
    \/ Decipher({NoFault})

SpecCrypto == Init /\ [][NextCrypto]_vars

\* the session's memory: any allocation of pgp_init, and one of the first
\* allocations of the file operations, may fail
InitFaults == {NoFault} \cup 0..(Len(pgp_objects) + 1)

Faults == {NoFault} \cup 0..MaxFault

\* read_binary allocates once at most
ReadFaults == {NoFault, 0}

MemPaths ==
    { Path(SC_PATH_TYPE_PATH, <<\H3f, \H00, \H00, \H4f>>),
      Path(SC_PATH_TYPE_PATH, <<\H00, \H65>>),
      Path(SC_PATH_TYPE_PATH, <<\H3f, \H00, \H00, \H65, \H00, \H5b>>) }

NextMem ==
    \/ PgpInit(InitFaults)
    \/ PgpFinish
    \/ SelectFile(MemPaths, {FALSE}, Faults)
    \/ ListFiles(Faults)
    \/ ReadBinary({0}, ReadFaults)

SpecMem == Init /\ [][NextMem]_vars

(***************************************************************************)
(* pgp_decipher as a function of the environment it finds in priv->sec_env:*)
(* every operation and key reference, those included that                  *)
(* pgp_set_security_env never stores, so that each of its exits is taken.  *)
(***************************************************************************)
\* the session once pgp_init has succeeded
Seeded ==
    pgp_init([blobs |-> <<>>, tape |-> <<Reply(0, 0, <<>>)>>, apdus |-> <<>>,
              trace |-> <<>>, short |-> FALSE, heap |-> {}, allocs |-> NoFault,
              freed |-> <<>>])

DecipherEnvs ==
    { SecEnv({"KEY_REF_PRESENT"}, op, SC_ALGORITHM_RSA, k, 1) :
        op \in {0, SC_SEC_OPERATION_DECIPHER, SC_SEC_OPERATION_SIGN}, k \in 0..3 }

\* temp = malloc(inlen + 1) may fail
DecipherFaults == {NoFault, 0}

InitDecipher ==
    /\ drv_data = Seeded.drv_data
    /\ blobs = Seeded.m.blobs
    /\ current = Seeded.current
    /\ sec_env \in DecipherEnvs
    /\ call = [op |-> "init"]
    /\ ret = Seeded.r
    /\ out = <<>>
    /\ apdus = Seeded.m.apdus
    /\ trace = <<>>
    /\ fault = "none"
    /\ good_env = NULL
    /\ heap = Seeded.m.heap
    /\ freed = <<>>

NextDecipher == Decipher(DecipherFaults)

SpecDecipher == InitDecipher /\ [][NextDecipher]_vars

(***************************************************************************)
(* Properties.                                                             *)
(***************************************************************************)
Last(s) == s[Len(s)]

\* the bytes hi, lo are the big-endian pair of id
BigEndianPair(hi, lo, id) == hi \in 0..255 /\ lo \in 0..255 /\ hi * 256 + lo = id

\* C1: compute_signature returns success only if the last successful
\* set_security_env asked for Sign with key reference 0x00 or 0x02, and
\* decipher only if it asked for Decipher with key reference 0x01; both fail
\* when no set_security_env has succeeded in the session.
C1_CryptoGated ==
    /\ (call.op = "compute_signature" /\ ret >= 0) =>
          /\ good_env # NULL
          /\ Deref(good_env).operation = SC_SEC_OPERATION_SIGN
          /\ Deref(good_env).key_ref[1] \in {0, 2}
    /\ (call.op = "decipher" /\ ret >= 0) =>
          /\ good_env # NULL
          /\ Deref(good_env).operation = SC_SEC_OPERATION_DECIPHER
          /\ Deref(good_env).key_ref[1] = 1

\* a decipher that succeeded, the last set_security_env before it having
\* stored its environment
C1_Witness ==
    /\ call.op = "decipher"
    /\ ret > 0
    /\ good_env # NULL
    /\ Deref(good_env).operation = SC_SEC_OPERATION_DECIPHER

\* what C2 says set_security_env returns for env
C2_Expected(env) ==
    IF \/ ("ALG_PRESENT" \in env.flags /\ env.algorithm # SC_ALGORITHM_RSA)
       \/ ~("KEY_REF_PRESENT" \in env.flags /\ env.key_ref_len = 1)
       \/ "FILE_REF_PRESENT" \in env.flags
       \/ env.operation \notin {SC_SEC_OPERATION_SIGN, SC_SEC_OPERATION_DECIPHER}
    THEN SC_ERROR_INVALID_ARGUMENTS
    ELSE IF \/ (env.operation = SC_SEC_OPERATION_SIGN /\ env.key_ref[1] \notin {0, 2})
            \/ (env.operation = SC_SEC_OPERATION_DECIPHER /\ env.key_ref[1] # 1)
    THEN SC_ERROR_NOT_SUPPORTED
    ELSE SC_SUCCESS

\* C2: set_security_env returns InvalidArguments, NotSupported or success
\* as the claim's cascade says, and stores the env in the session exactly
\* when it returns success (the stored env is untouched otherwise).
C2_SetEnvResult ==
    [][ call'.op = "set_security_env" =>
          /\ ret' = C2_Expected(call'.env)
          /\ sec_env' = IF ret' = SC_SUCCESS THEN call'.env ELSE sec_env ]_vars

\* a Sign request with key reference 0x01 refused with NotSupported while
\* an earlier environment stays stored
C2_Witness ==
    /\ call.op = "set_security_env"
    /\ call.env.operation = SC_SEC_OPERATION_SIGN
    /\ call.env.key_ref[1] = 1
    /\ ret = SC_ERROR_NOT_SUPPORTED
    /\ sec_env # ZeroEnv

\* C3: write_binary and put_data return NotSupported whatever they are
\* passed and whatever the session holds, and transmit no command.
C3_WritesRefused ==
    call.op \in {"write_binary", "put_data"} =>
        ret = SC_ERROR_NOT_SUPPORTED /\ apdus = <<>>

\* a write_binary refused while a leaf with cached bytes is selected
C3_Witness ==
    /\ call.op = "write_binary"
    /\ ret = SC_ERROR_NOT_SUPPORTED
    /\ current # 0
    /\ blobs[current].data # NULL
    /\ sec_env # ZeroEnv

\* read_binary has run on a selected leaf whose bytes are cached
LeafWasRead ==
    /\ call.op = "read_binary"
    /\ current # 0
    /\ blobs[current].file.type = SC_FILE_TYPE_WORKING_EF
    /\ blobs[current].status = 0
    /\ ret \notin {SC_ERROR_TRANSMIT_FAILED, SC_ERROR_CARD_CMD_FAILED}

\* C4: on a selected leaf of cached length L, read_binary(offset, count)
\* with offset <= L returns min(count, L - offset) and copies exactly the
\* cached bytes from offset on, never reading the buffer at an index >= L;
\* with offset > L it fails with IncorrectParameters.
C4_ReadBounds ==
    LeafWasRead =>
        IF call.idx <= blobs[current].len
        THEN /\ ret = Min(call.count, blobs[current].len - call.idx)
             /\ out = SubSeq(DataOf(blobs, current), call.idx + 1, call.idx + ret)
             /\ Len(out) = ret
             /\ fault = "none"
        ELSE ret = SC_ERROR_INCORRECT_PARAMETERS /\ out = <<>>

\* a read of 3 bytes at offset 1 of a 3-byte leaf, cut to 2 bytes
C4_Witness ==
    /\ LeafWasRead
    /\ blobs[current].len = 3
    /\ call.idx = 1
    /\ call.count = 3
    /\ ret = 2


\* select_file was given a path of file ids
IdPath(path) == path.type = SC_PATH_TYPE_PATH /\ path.len >= 2 /\ path.len % 2 = 0

\* the ids the walk looks for: the path's, a leading 3F00 dropped
WalkLen(path) ==
    IF SubSeq(path.value, 1, 2) = <<\H3f, \H00>> THEN (path.len - 2) \div 2
    ELSE path.len \div 2

\* C5: once select_file(p) has succeeded on a path of ids, the same call made
\* right after it succeeds too, hands out an equal file view (path, kind, id,
\* size) and leaves the same blob selected.
C5_SelectTwice ==
    [][ ( /\ call.op = "select_file" /\ IdPath(call.path) /\ ret = SC_SUCCESS
          /\ call'.op = "select_file" /\ call'.path = call.path
          /\ call.want_ret /\ call'.want_ret )
        => (ret' = SC_SUCCESS /\ out' = out /\ current' = current) ]_vars

\* a step of the walk at which the walk stops
StepFails(s) == s.enum < 0 \/ s.child = 0

\* C6 as the specification words it: a lazy read that fails at any step of
\* the walk, the read of the final blob included, makes select_file fail.
C6_AnyReadAborts ==
    (call.op = "select_file" /\ \E k \in 1..Len(trace) :
                                    trace[k].enum < 0 \/ trace[k].read < 0)
        => ret < 0

\* C6: select_file on a path of ids stops at the first step whose expansion
\* (the lazy read and TLV parse of the blob whose children are searched) or
\* lookup fails and returns that error, resolving no later id; what the lazy
\* read of the child found returns, the final blob's included, is discarded
\* and does not make select_file fail.
C6_WalkAborts ==
    (call.op = "select_file" /\ trace # <<>>) =>
        /\ \A k \in 1..(Len(trace) - 1) : ~StepFails(trace[k])
        /\ IF StepFails(Last(trace))
           THEN /\ ret = IF Last(trace).enum < 0 THEN Last(trace).enum
                         ELSE SC_ERROR_FILE_NOT_FOUND
                /\ ret < 0
                /\ current = 0
           ELSE /\ ret = SC_SUCCESS
                /\ Len(trace) = WalkLen(call.path)
                /\ current = Last(trace).child

\* a select_file that succeeded although the read of the final blob failed
C6_Witness ==
    /\ call.op = "select_file"
    /\ ret = SC_SUCCESS
    /\ trace # <<>>
    /\ Last(trace).read < 0
    /\ current = Last(trace).child

\* select_file has just looked in an expanded blob for an id it does not hold
IdMissing ==
    /\ call.op = "select_file"
    /\ trace # <<>>
    /\ Last(trace).enum >= 0
    /\ FindChild(blobs, Last(trace).blob, Last(trace).id) = 0

\* C7: when an id of the path is not a child of the blob reached so far,
\* select_file returns FileNotFound and leaves no blob selected, whatever was
\* selected before; a read_binary that follows fails and copies nothing.
C7_MissingId ==
    /\ [](IdMissing => (ret = SC_ERROR_FILE_NOT_FOUND /\ current = 0))
    /\ [][ (IdMissing /\ call'.op = "read_binary")
           => (ret' < 0 /\ out' = <<>> /\ apdus' = <<>>) ]_vars

\* a read_binary refused for want of a selected blob, a leaf read earlier
\* still being cached
C7_Witness ==
    /\ call.op = "read_binary"
    /\ current = 0
    /\ ret = SC_ERROR_FILE_NOT_FOUND
    /\ \E b \in 1..Len(blobs) : blobs[b].data # NULL

\* C8: list_files with no blob selected, or with a selected blob that is not
\* a Directory, returns an error and touches no blob that is not there.
C8_ListNeedsDirectory ==
    (call.op = "list_files"
        /\ (current = 0 \/ blobs[current].file.type # SC_FILE_TYPE_DF))
        => (ret < 0 /\ fault = "none" /\ out = <<>>)

\* the 34 bytes that list the registry's ids in the table's order
RegistryListing ==
    [k \in 1..(2 * Len(pgp_objects)) |->
        IF k % 2 = 1 THEN pgp_objects[(k + 1) \div 2].id \div 256
        ELSE pgp_objects[k \div 2].id % 256]

\* C9: a list_files that succeeds on a Directory of n children has written
\* the ids of the first min(n, buflen div 2) children, in child order, as
\* big-endian byte pairs, has returned twice that count, and has written no
\* more than buflen bytes; on the root with buflen 64 it returns 34 bytes,
\* the 17 registry ids in the table's order.
C9_Listing ==
    (call.op = "list_files" /\ fault = "none" /\ ret >= 0) =>
        /\ current # 0
        /\ blobs[current].file.type = SC_FILE_TYPE_DF
        /\ ret = 2 * Min(Len(blobs[current].files), call.buflen \div 2)
        /\ Len(out) = ret
        /\ Len(out) <= call.buflen
        /\ \A i \in 1..(ret \div 2) :
              BigEndianPair(out[2 * i - 1], out[2 * i], blobs[blobs[current].files[i]].id)
        /\ (current = mf /\ call.buflen = 64) => (ret = 34 /\ out = RegistryListing)

\* the root listed into 64 bytes
C9_Witness ==
    /\ call.op = "list_files"
    /\ current = mf
    /\ call.buflen = 64
    /\ ret = 34
    /\ out = RegistryListing

\* C10: select_file with a DF-name path, whether the delegated select
\* succeeds or fails, changes neither the selected blob nor any blob or
\* cache entry nor the stored security environment.
C10_DfNameDelegated ==
    [][ (call'.op = "select_file" /\ call'.path.type = SC_PATH_TYPE_DF_NAME)
        => (current' = current /\ blobs' = blobs /\ sec_env' = sec_env
            /\ drv_data' = drv_data /\ trace' = <<>>) ]_vars

\* a DF-name select the card refused, a cached leaf being selected and an
\* environment stored
C10_Witness ==
    /\ call.op = "select_file"
    /\ call.path.type = SC_PATH_TYPE_DF_NAME
    /\ ret < 0
    /\ current # 0
    /\ blobs[current].data # NULL
    /\ sec_env # ZeroEnv

\* the one command a crypto operation has transmitted
CryptoCommand(ins, p1, p2) ==
    /\ Len(apdus) = 1
    /\ apdus[1].cse = SC_APDU_CASE_4
    /\ apdus[1].ins = ins
    /\ apdus[1].p1 = p1
    /\ apdus[1].p2 = p2

\* C11: a crypto operation that does not return InvalidArguments has sent
\* exactly one case-4 command chosen by the stored key reference: signing
\* with key 0x00 sends INS 2A, P1 9E, P2 9A, signing with key 0x02 sends
\* INS 88, P1 0, P2 0, deciphering with key 0x01 sends INS 2A, P1 80, P2 86;
\* one that returns InvalidArguments has sent no command.
C11_CryptoCommands ==
    call.op \in {"compute_signature", "decipher"} =>
        IF ret = SC_ERROR_INVALID_ARGUMENTS THEN apdus = <<>>
        ELSE IF call.op = "decipher"
        THEN sec_env.key_ref[1] = 1 /\ CryptoCommand(\H2a, \H80, \H86)
        ELSE \/ sec_env.key_ref[1] = 0 /\ CryptoCommand(\H2a, \H9e, \H9a)
             \/ sec_env.key_ref[1] = 2 /\ CryptoCommand(\H88, 0, 0)

\* a signature made with the authentication key
C11_Witness ==
    /\ call.op = "compute_signature"
    /\ ret > 0
    /\ sec_env.key_ref[1] = 2
    /\ CryptoCommand(\H88, 0, 0)

\* C12: under the environment (Decipher, key 0x01) decipher sends, for an
\* input of n bytes, a data field of n + 1 bytes: a zero byte, then the
\* input in order.
C12_DecipherPadding ==
    (call.op = "decipher" /\ sec_env.operation = SC_SEC_OPERATION_DECIPHER
        /\ sec_env.key_ref[1] = 1)
        => /\ Len(apdus) = 1
           /\ Len(apdus[1].data) = Len(call.in) + 1
           /\ apdus[1].data[1] = 0
           /\ \A i \in 1..Len(call.in) : apdus[1].data[i + 1] = call.in[i]

\* a decipher of a two-byte input
C12_Witness ==
    /\ call.op = "decipher"
    /\ Len(call.in) = 2
    /\ Len(apdus) = 1
    /\ apdus[1].data = <<0>> \o call.in
    /\ ret > 0

\* the GET DATA command for the tag id is among the commands cmds
GetDataSent(cmds, id) ==
    \E k \in 1..Len(cmds) :
        cmds[k].ins = \Hca /\ cmds[k].p1 * 256 + cmds[k].p2 = id

\* the load of blob b has failed
LoadFailed(b) == blobs[b].status < 0

\* C13: once the load of a blob has failed, no later operation of the
\* session invokes the blob's getter again (no further card command for the
\* blob), the recorded error stays, and the blob's data stays absent.
C13_StickyFailure ==
    [][ \A b \in 1..Len(blobs) :
          (LoadFailed(b) /\ call'.op \notin {"init", "finish"})
          => /\ blobs'[b].data = NULL
             /\ blobs'[b].status = blobs[b].status
             /\ ~GetDataSent(apdus', blobs[b].id) ]_vars

\* the number of TLV elements the bytes buf decompose into, -1 when an
\* element is truncated or malformed
RECURSIVE TlvElements(_)
TlvElements(buf) ==
    IF buf = <<>> THEN 0
    ELSE IF sc_asn1_read_tag(buf).r < 0 THEN -1
    ELSE IF TlvElements(SubSeq(buf, sc_asn1_read_tag(buf).hdr
                                    + sc_asn1_read_tag(buf).len + 1, Len(buf))) < 0
    THEN -1
    ELSE 1 + TlvElements(SubSeq(buf, sc_asn1_read_tag(buf).hdr
                                     + sc_asn1_read_tag(buf).len + 1, Len(buf)))

\* C14: the expansion of a Directory blob is all-or-nothing: the children
\* of a non-root Directory blob are none or the complete TLV decomposition
\* of its data, and an expansion that returned ObjectInvalid has left no
\* child behind.
C14_AllOrNothing ==
    \A b \in 2..Len(blobs) :
        blobs[b].file.type = SC_FILE_TYPE_DF =>
            \/ blobs[b].files = <<>>
            \/ Len(blobs[b].files) = TlvElements(DataOf(blobs, b))

\* how often blob b stands in the child list of blob p
TimesChild(p, b) == Cardinality({ k \in 1..Len(blobs[p].files) : blobs[p].files[k] = b })

\* every blob but the root stands once in its parent's child list and in
\* no other
OneParent ==
    \A b \in 2..Len(blobs) :
        /\ blobs[b].parent \in 1..Len(blobs)
        /\ \A p \in 1..Len(blobs) :
              TimesChild(p, b) = IF p = blobs[b].parent THEN 1 ELSE 0

\* no two children of a blob have the same id
NoTwinIds ==
    \A p \in 1..Len(blobs) :
        \A i, j \in 1..Len(blobs[p].files) :
            i # j => blobs[blobs[p].files[i]].id # blobs[blobs[p].files[j]].id

\* C15: between init and finish, whatever bytes the card returns, every
\* blob other than the root is exactly once a child of its parent and of no
\* other blob, and no two children of a parent share an id.
C15_TreeSound == OneParent /\ NoTwinIds

\* C16: after any successful operation every blob whose data is present has
\* a len equal to the number of cached bytes and a file view whose size
\* equals that len.
C16_CacheCoherent ==
    (call.op # "none" /\ ret >= 0) =>
        \A b \in 1..Len(blobs) :
            blobs[b].data # NULL =>
                /\ blobs[b].len = Len(Deref(blobs[b].data))
                /\ blobs[b].file.size = blobs[b].len

\* a select_file that has cached the bytes of a Directory and of its child
C16_Witness ==
    /\ call.op = "select_file"
    /\ ret = SC_SUCCESS
    /\ current # 0
    /\ blobs[current].parent # mf
    /\ blobs[current].data # NULL
    /\ blobs[blobs[current].parent].data # NULL
    /\ blobs[blobs[current].parent].file.size = 3


\* the ids of the children of blob b, in list order
ChildIds(bs, b) == [k \in 1..Len(bs[b].files) |-> bs[bs[b].files[k]].id]

\* resolving the same path of ids twice in a row leaves every blob with the
\* children it had after the first resolution
C17_ResolveTwice ==
    [][ ( /\ call.op = "select_file" /\ IdPath(call.path) /\ ret = SC_SUCCESS
          /\ call'.op = "select_file" /\ call'.path = call.path )
        => \A b \in 1..Len(blobs) : blobs'[b].files = blobs[b].files ]_vars

\* C17: expanding a constructed DO is idempotent: resolving a path through
\* it twice, or listing it twice, leaves the blob with the children it had
\* after the first time, same ids in the same order; the second call adds,
\* removes, duplicates and reorders no child.
C17_ExpandTwice ==
    [][ /\ ( /\ call.op = "select_file" /\ IdPath(call.path) /\ ret = SC_SUCCESS
             /\ call'.op = "select_file" /\ call'.path = call.path )
           => \A b \in 1..Len(blobs) : blobs'[b].files = blobs[b].files
        /\ ( /\ call.op = "list_files" /\ ret >= 0 /\ fault = "none"
             /\ call'.op = "list_files" )
           => /\ blobs'[current].files = blobs[current].files
              /\ ChildIds(blobs', current) = ChildIds(blobs, current) ]_vars

\* C18: once a lazy read of a registry-backed blob has succeeded, every later
\* lazy read of the blob succeeds without invoking its getter again: no card
\* command is sent for it, also when the getter had succeeded with zero bytes.
C18_LoadedOnce ==
    [][ ( /\ call.op = "read_binary" /\ ret >= 0
          /\ current # 0 /\ blobs[current].info # 0
          /\ call'.op = "read_binary" /\ call'.idx = 0 )
        => (ret' >= 0 /\ apdus' = <<>>) ]_vars

\* the same, for the blobs whose getter had returned at least one byte
C18_LoadedBytes ==
    [][ ( /\ call.op = "read_binary" /\ ret >= 0
          /\ current # 0 /\ blobs[current].info # 0 /\ blobs[current].data # NULL
          /\ call'.op = "read_binary" /\ call'.idx = 0 )
        => (ret' >= 0 /\ apdus' = <<>>) ]_vars


\* the places of x in the log s of a call's frees
Places(s, x) == { k \in 1..Len(s) : s[k] = x }

\* x was freed once, and before y was
FreedBefore(s, x, y) ==
    \A i \in Places(s, x), j \in Places(s, y) : i < j

\* C19: finish frees every blob of the tree exactly once, every child before
\* its parent, and after them the private record, also exactly once; no blob
\* and no private record stays allocated.  The trees are those init,
\* select_file, list_files and read_binary build, with allocations failing.
C19_FinishFreesAll ==
    [][ call'.op = "finish" =>
          /\ ret' = SC_SUCCESS
          /\ drv_data' = NULL
          /\ \A b \in 1..Len(blobs) :
                /\ Cardinality(Places(freed', <<"blob", b>>)) = 1
                /\ \A k \in 1..Len(blobs[b].files) :
                      FreedBefore(freed', <<"blob", blobs[b].files[k]>>, <<"blob", b>>)
                /\ FreedBefore(freed', <<"blob", b>>, <<"priv", 0>>)
          /\ Cardinality(Places(freed', <<"priv", 0>>)) = 1
          /\ \A o \in heap' : o[1] \notin {"blob", "priv"} ]_vars

\* finish has freed a tree with a child made from a TLV element and with
\* cached bytes
C19_Witness ==
    /\ call.op = "finish"
    /\ ret = SC_SUCCESS
    /\ \E k \in 1..Len(freed) :
          freed[k][1] = "blob" /\ freed[k][2] > Len(pgp_objects) + 1
    /\ \E k \in 1..Len(freed) : freed[k][1] = "data"
    /\ Last(freed) = <<"priv", 0>>


\* init has returned SC_ERROR_OUT_OF_MEMORY from the loop that seeds the
\* registry children: pgp_finish has walked the tree
SeedingFailed ==
    /\ call'.op = "init"
    /\ ret' = SC_ERROR_OUT_OF_MEMORY
    /\ Places(freed', <<"blob", mf>>) # {}

\* what the failed init does tear down: the private record, the root and the
\* children made so far, with their file views; the driver data is cleared
C20_TornDownButOrphan ==
    [][ SeedingFailed =>
          /\ drv_data' = NULL
          /\ \A o \in heap' \ heap : o[1] = "orphan"
          /\ Last(freed') = <<"priv", 0>> ]_vars

\* C20: when an allocation fails while init seeds the registry children,
\* init returns SC_ERROR_OUT_OF_MEMORY after a full teardown: nothing the
\* call allocated stays allocated, the file view made for the child whose
\* allocation failed included, and the driver data is cleared.
C20_FullTeardown ==
    [][ SeedingFailed => (heap' = heap /\ drv_data' = NULL) ]_vars


\* the padded-input buffer of pgp_decipher
Temp == <<"temp", 0>>

\* C21: decipher releases its padded-input buffer exactly once on every exit
\* path (wrong operation in the environment, key reference 0x00 or 0x02, any
\* other key reference, transmission failure, status-word error, success):
\* it never returns with the buffer allocated and never releases it twice;
\* when the buffer could not be allocated nothing is released.
C21_TempReleased ==
    call.op = "decipher" =>
        /\ Temp \notin heap
        /\ Cardinality(Places(freed, Temp)) =
               IF ret = SC_ERROR_OUT_OF_MEMORY THEN 0 ELSE 1
        /\ Len(freed) = Cardinality(Places(freed, Temp))

\* decipher has left by the exit of the signing-key references
C21_Witness ==
    /\ call.op = "decipher"
    /\ sec_env.operation = SC_SEC_OPERATION_DECIPHER
    /\ sec_env.key_ref[1] = 2
    /\ ret = SC_ERROR_INVALID_ARGUMENTS
    /\ freed = <<Temp>>

\* each exit of decipher is taken
C21_ExitWrongOperation ==
    call.op = "decipher" /\ sec_env.operation = SC_SEC_OPERATION_SIGN /\ freed = <<Temp>>
C21_ExitOtherKey ==
    /\ call.op = "decipher" /\ sec_env.operation = SC_SEC_OPERATION_DECIPHER
    /\ sec_env.key_ref[1] = 3 /\ freed = <<Temp>>
C21_ExitTransmit ==
    call.op = "decipher" /\ ret = SC_ERROR_TRANSMIT_FAILED /\ freed = <<Temp>>
C21_ExitStatusWord ==
    call.op = "decipher" /\ ret = SC_ERROR_CARD_CMD_FAILED /\ freed = <<Temp>>
C21_ExitSuccess ==
    call.op = "decipher" /\ ret > 0 /\ Len(apdus) = 1 /\ freed = <<Temp>>
C21_ExitNoMemory ==
    call.op = "decipher" /\ ret = SC_ERROR_OUT_OF_MEMORY /\ freed = <<>>


\* the pairs of operation and key reference pgp_set_security_env stores
StoredPairs ==
    { <<SC_SEC_OPERATION_SIGN, 0>>, <<SC_SEC_OPERATION_SIGN, 2>>,
      <<SC_SEC_OPERATION_DECIPHER, 1>> }

\* C22: between init and finish the stored security environment is the
\* zeroed one, which asks neither for Sign nor for Decipher, or holds one of
\* the pairs (Sign, 0x00), (Sign, 0x02), (Decipher, 0x01) with a key
\* reference of one byte; hence compute_signature and decipher, once their
\* check of the operation has passed, never reject the key reference: they
\* send their command.
C22_StoredEnv ==
    drv_data # NULL =>
        /\ \/ /\ sec_env = ZeroEnv
              /\ sec_env.operation \notin {SC_SEC_OPERATION_SIGN, SC_SEC_OPERATION_DECIPHER}
           \/ /\ <<sec_env.operation, sec_env.key_ref[1]>> \in StoredPairs
              /\ sec_env.key_ref_len = 1
        /\ (call.op = "compute_signature" /\ sec_env.operation = SC_SEC_OPERATION_SIGN)
              => Len(apdus) = 1
        /\ (call.op = "decipher" /\ sec_env.operation = SC_SEC_OPERATION_DECIPHER)
              => Len(apdus) = 1

\* set_security_env has refused (Sign, 0x01) while (Decipher, 0x01) was
\* stored, and the stored environment is as it was
C22_Witness ==
    /\ call.op = "set_security_env"
    /\ ret = SC_ERROR_NOT_SUPPORTED
    /\ call.env.operation = SC_SEC_OPERATION_SIGN
    /\ call.env.key_ref[1] = 1
    /\ sec_env.operation = SC_SEC_OPERATION_DECIPHER
    /\ sec_env.key_ref[1] = 1

\* all three pairs get stored
C22_SignKey0 ==
    drv_data # NULL /\ sec_env.operation = SC_SEC_OPERATION_SIGN /\ sec_env.key_ref[1] = 0
C22_SignKey2 ==
    drv_data # NULL /\ sec_env.operation = SC_SEC_OPERATION_SIGN /\ sec_env.key_ref[1] = 2

====
